---- MODULE Spec2Model ----
(***************************************************************************)
(* Model of csv_validator: the validation pipeline of validator.py        *)
(* (existence check, decoding reader, schema checker, row validator,      *)
(* aggregator, orchestrator) and the CLI entry point of cli.py.           *)
(*                                                                         *)
(* A file is a sequence of lines, a line a sequence of cells, a cell a    *)
(* sequence of bytes.  Text is a sequence of characters.  ASCII bytes and *)
(* characters are written as one-character strings; the other bytes are   *)
(* "xE9", "x81", "xEF", "xBB", "xBF".                                      *)
(***************************************************************************)
EXTENDS Integers, Sequences, FiniteSets, TLC

(* ---------------------------------------------------------------- bounds *)
MaxRows == 2          \* data lines after the header line
MaxFields == 3        \* cells in one data line
MaxEncodings == 3     \* candidates in a caller-supplied encodings iterable

(* ------------------------------------------------------------ text, bytes *)
None == [t |-> "None"]
Str(s) == [t |-> "str", s |-> s]
List(l) == [t |-> "list", l |-> l]
NoneKey == <<"<None>">>

id == <<"i", "d">>
edad == <<"e", "d", "a", "d">>
BOM == <<"xEF", "xBB", "xBF">>

AsciiBytes == {"a", "d", "e", "i", "5", "8", " ", "-"}
ContinuationBytes == {"x81", "xBB", "xBF"}
Lead3Bytes == {"xE9", "xEF"}

Drop(n, s) == SubSeq(s, n + 1, Len(s))

RECURSIVE DecodeUtf8(_)
DecodeUtf8(bs) ==
    IF bs = <<>> THEN [ok |-> TRUE, text |-> <<>>]
    ELSE IF bs[1] \in AsciiBytes
    THEN LET r == DecodeUtf8(Drop(1, bs))
         IN [ok |-> r.ok, text |-> <<bs[1]>> \o r.text]
    ELSE IF bs[1] \in Lead3Bytes /\ Len(bs) >= 3
            /\ bs[2] \in ContinuationBytes /\ bs[3] \in ContinuationBytes
    THEN LET r == DecodeUtf8(Drop(3, bs))
         IN [ok |-> r.ok, text |-> <<"u8:" \o bs[1] \o bs[2] \o bs[3]>> \o r.text]
    ELSE [ok |-> FALSE, text |-> <<>>]

Cp1252Char(b) ==
    CASE b = "xE9" -> "U+00E9"
      [] b = "xEF" -> "U+00EF"
      [] b = "xBB" -> "U+00BB"
      [] b = "xBF" -> "U+00BF"
      [] OTHER -> b

RECURSIVE DecodeCp1252(_)
DecodeCp1252(bs) ==
    IF bs = <<>> THEN [ok |-> TRUE, text |-> <<>>]
    ELSE IF bs[1] = "x81" THEN [ok |-> FALSE, text |-> <<>>]
    ELSE LET r == DecodeCp1252(Drop(1, bs))
         IN [ok |-> r.ok, text |-> <<Cp1252Char(bs[1])>> \o r.text]

\* Decoding of one cell; start says whether the cell opens the byte stream.
Decode(encoding, bs, start) ==
    CASE encoding = "utf-8" -> DecodeUtf8(bs)
      [] encoding = "utf-8-sig" ->
            IF start /\ Len(bs) >= 3 /\ SubSeq(bs, 1, 3) = BOM
            THEN DecodeUtf8(Drop(3, bs))
            ELSE DecodeUtf8(bs)
      [] encoding = "cp1252" -> DecodeCp1252(bs)

DecodeLine(encoding, line, first) ==
    LET d(i) == Decode(encoding, line[i], first /\ i = 1)
    IN [ok |-> \A i \in 1..Len(line) : d(i).ok,
        cells |-> [i \in 1..Len(line) |-> d(i).text]]

Decodable(encoding, lines) ==
    \A n \in 1..Len(lines) : DecodeLine(encoding, lines[n], n = 1).ok

(* ------------------------------------------------------------ str, int() *)
IsSpace(c) == c = " "
Digits == <<"0", "1", "2", "3", "4", "5", "6", "7", "8", "9">>
IsDigit(c) == \E k \in 1..10 : Digits[k] = c
DigitVal(c) == (CHOOSE k \in 1..10 : Digits[k] = c) - 1

RECURSIVE LStrip(_)
LStrip(s) == IF s # <<>> /\ IsSpace(s[1]) THEN LStrip(Drop(1, s)) ELSE s
RECURSIVE RStrip(_)
RStrip(s) ==
    IF s # <<>> /\ IsSpace(s[Len(s)]) THEN RStrip(SubSeq(s, 1, Len(s) - 1)) ELSE s
Strip(s) == RStrip(LStrip(s))

RECURSIVE DigitsValue(_)
DigitsValue(s) ==
    IF s = <<>> THEN 0 ELSE 10 * DigitsValue(SubSeq(s, 1, Len(s) - 1)) + DigitVal(s[Len(s)])

\* int(value): surrounding whitespace, an optional sign, decimal digits.
ParseInt(value) ==
    LET s == Strip(value)
        signed == s # <<>> /\ s[1] \in {"+", "-"}
        body == IF signed THEN Drop(1, s) ELSE s
        ok == body # <<>> /\ \A k \in 1..Len(body) : IsDigit(body[k])
    IN [ok |-> ok,
        val |-> IF ~ok THEN 0
                ELSE IF signed /\ s[1] = "-" THEN 0 - DigitsValue(body)
                ELSE DigitsValue(body)]

(* --------------------------------------------------- sorted() of strings *)
Letters == <<" ", "-", "5", "8", "a", "d", "e", "i">>
Ord(c) == CHOOSE k \in 1..Len(Letters) : Letters[k] = c

RECURSIVE StrLess(_, _)
StrLess(a, b) ==
    IF b = <<>> THEN FALSE
    ELSE IF a = <<>> THEN TRUE
    ELSE IF a[1] = b[1] THEN StrLess(Drop(1, a), Drop(1, b))
    ELSE Ord(a[1]) < Ord(b[1])

RECURSIVE Sorted(_)
Sorted(S) ==
    IF S = {} THEN <<>>
    ELSE LET m == CHOOSE x \in S : \A y \in S \ {x} : StrLess(x, y)
         IN <<m>> \o Sorted(S \ {m})

(* ------------------------------------------------------- csv.DictReader *)
Min(a, b) == IF a < b THEN a ELSE b

\* One record: dict(zip(fieldnames, row)), then restkey or restval.
DictRow(fieldnames, row) ==
    LET lf == Len(fieldnames)
        lr == Len(row)
        m == Min(lf, lr)
        zipped == {fieldnames[k] : k \in 1..m}
        filled == {fieldnames[k] : k \in (lr + 1)..lf}
        last(key) == CHOOSE k \in 1..m :
                        /\ fieldnames[k] = key
                        /\ \A j \in (k + 1)..m : fieldnames[j] # key
        keys == zipped \cup filled \cup (IF lf < lr THEN {NoneKey} ELSE {})
    IN [key \in keys |->
            IF key = NoneKey THEN List(SubSeq(row, lf + 1, lr))
            ELSE IF key \in filled THEN None
            ELSE Str(row[last(key)])]

(* --------------------------------------------------------- validator.py *)
DEFAULT_ENCODINGS == <<"utf-8", "utf-8-sig", "cp1252">>

ValueError(what, args) == [type |-> "ValueError", what |-> what, args |-> args]
OtherError(type) == [type |-> type, what |-> "", args |-> <<>>]
NoError == OtherError("")

\* Variant: the columns are compared before the emptiness check, against an
\* empty header when there is no record.
validate_columns_CompareFirst(rs, expected_columns) ==
    LET columns == IF rs = <<>> THEN {} ELSE DOMAIN rs[1]
        missing == expected_columns \ columns
    IN IF missing # {} THEN ValueError("Missing columns", Sorted(missing))
       ELSE IF rs = <<>> THEN ValueError("CSV has no rows", <<>>)
       ELSE NoError

\* validate_columns: the error it raises, NoError when it passes.
validate_columns(rs, expected_columns) ==
    IF rs = <<>> THEN ValueError("CSV has no rows", <<>>)
    ELSE LET columns == DOMAIN rs[1]
             missing == expected_columns \ columns
         IN IF missing # {} THEN ValueError("Missing columns", Sorted(missing))
            ELSE NoError

\* (row.get(age_column) or "").strip()
AgeValue(row, age_column) ==
    LET got == IF age_column \in DOMAIN row THEN row[age_column] ELSE None
    IN Strip(IF got.t = "str" THEN got.s ELSE <<>>)

Truthy(v) ==
    CASE v.t = "None" -> FALSE
      [] v.t = "str" -> v.s # <<>>
      [] v.t = "list" -> v.l # <<>>

\* Variant: the age is validated before the underflow check.
RowErrors_AgeFirst(i, row, age_column) ==
    IF NoneKey \in DOMAIN row /\ Truthy(row[NoneKey])
    THEN <<[row |-> i, kind |-> "Too many columns", detail |-> row[NoneKey].l]>>
    ELSE LET value == AgeValue(row, age_column)
         IN IF ~ParseInt(value).ok
            THEN <<[row |-> i, kind |-> "invalid", detail |-> <<age_column, value>>]>>
            ELSE IF \E k \in DOMAIN row \ {NoneKey} : row[k] = None
            THEN <<[row |-> i, kind |-> "Missing columns", detail |-> <<>>]>>
            ELSE <<>>

\* Variant: an empty age value is let through unvalidated.
RowErrors_SkipsEmptyAge(i, row, age_column) ==
    IF NoneKey \in DOMAIN row /\ Truthy(row[NoneKey])
    THEN <<[row |-> i, kind |-> "Too many columns", detail |-> row[NoneKey].l]>>
    ELSE IF \E k \in DOMAIN row \ {NoneKey} : row[k] = None
    THEN <<[row |-> i, kind |-> "Missing columns", detail |-> <<>>]>>
    ELSE LET value == AgeValue(row, age_column)
         IN IF value = <<>> \/ ParseInt(value).ok THEN <<>>
            ELSE <<[row |-> i, kind |-> "invalid", detail |-> <<age_column, value>>]>>

\* The messages one row appends to errors (at most one).
RowErrors(i, row, age_column) ==
    IF NoneKey \in DOMAIN row /\ Truthy(row[NoneKey])
    THEN <<[row |-> i, kind |-> "Too many columns", detail |-> row[NoneKey].l]>>
    ELSE IF \E k \in DOMAIN row \ {NoneKey} : row[k] = None
    THEN <<[row |-> i, kind |-> "Missing columns", detail |-> <<>>]>>
    ELSE LET value == AgeValue(row, age_column)
         IN IF ParseInt(value).ok THEN <<>>
            ELSE <<[row |-> i, kind |-> "invalid", detail |-> <<age_column, value>>]>>

RECURSIVE ValidateFrom(_, _, _)
ValidateFrom(i, rs, age_column) ==
    IF i > Len(rs) THEN <<>>
    ELSE RowErrors(i, rs[i], age_column) \o ValidateFrom(i + 1, rs, age_column)

validate_rows(rs, age_column) == ValidateFrom(1, rs, age_column)

RECURSIVE SumAges(_, _)
SumAges(rs, age_column) ==
    IF rs = <<>> THEN 0
    ELSE ParseInt(AgeValue(rs[1], age_column)).val + SumAges(Drop(1, rs), age_column)

Abs(n) == IF n < 0 THEN 0 - n ELSE n
RECURSIVE Gcd(_, _)
Gcd(a, b) == IF b = 0 THEN a ELSE Gcd(b, a % b)

\* sum / total as a quotient in lowest terms.
Quotient(sum, total) ==
    LET g == Gcd(Abs(sum), total)
    IN [num |-> sum \div g, den |-> total \div g]

\* compute_summary: (total, avg), or the error it raises.
compute_summary(rs, age_column) ==
    LET parsed == \A k \in 1..Len(rs) : ParseInt(AgeValue(rs[k], age_column)).ok
        total == Len(rs)
    IN IF ~parsed THEN [error |-> OtherError("ValueError:int"), total |-> 0, avg |-> <<>>]
       ELSE IF total = 0
       THEN [error |-> OtherError("ZeroDivisionError"), total |-> 0, avg |-> <<>>]
       ELSE [error |-> NoError, total |-> total,
             avg |-> <<Quotient(SumAges(rs, age_column), total)>>]

\* Variant: the average is filled in although rows failed validation.
ErrorResult_WithAvg(rs, errs, encoding) ==
    [total_rows |-> Len(rs), avg_age |-> <<Quotient(0, Len(rs))>>, errors |-> errs,
     encoding_used |-> encoding]

\* The ValidationResult returned when validate_rows found errors.
ErrorResult(rs, errs, encoding) ==
    [total_rows |-> Len(rs), avg_age |-> <<>>, errors |-> errs, encoding_used |-> encoding]

\* The ValidationResult returned after compute_summary.
SummaryResult(total, avg, encoding) ==
    [total_rows |-> total, avg_age |-> avg, errors |-> <<>>, encoding_used |-> encoding]

NoResult == [total_rows |-> 0, avg_age |-> <<>>, errors |-> <<>>, encoding_used |-> ""]

\* tuple(encodings) after the for loop: a tuple is iterated again from its
\* start, an iterator yields only what the loop left in it.
TupleOf(iterable, left) == IF iterable.oneShot THEN left ELSE iterable.items

\* Variant: a line that does not decode is dropped instead of failing the
\* attempt.
ReadStep_SkipsUndecodable(encoding, lines, n, names, recs) ==
    LET d == DecodeLine(encoding, lines[n], n = 1)
    IN IF ~d.ok THEN [ok |-> TRUE, names |-> names, recs |-> recs]
       ELSE IF n = 1 THEN [ok |-> TRUE, names |-> d.cells, recs |-> recs]
       ELSE IF d.cells = <<>> THEN [ok |-> TRUE, names |-> names, recs |-> recs]
       ELSE [ok |-> TRUE, names |-> names, recs |-> Append(recs, DictRow(names, d.cells))]

\* One iteration of list(reader) on line n of the file: the header line sets
\* fieldnames, a blank line is skipped, any other line becomes a record.
ReadStep(encoding, lines, n, names, recs) ==
    LET d == DecodeLine(encoding, lines[n], n = 1)
    IN IF ~d.ok THEN [ok |-> FALSE, names |-> names, recs |-> recs]
       ELSE IF n = 1 THEN [ok |-> TRUE, names |-> d.cells, recs |-> recs]
       ELSE IF d.cells = <<>> THEN [ok |-> TRUE, names |-> names, recs |-> recs]
       ELSE [ok |-> TRUE, names |-> names, recs |-> Append(recs, DictRow(names, d.cells))]

\* Variant: the handle is not closed when the attempt fails to decode.
HandlesAfterExit_LeakOnDecodeError(n, leaving) ==
    IF leaving = "UnicodeDecodeError" THEN n ELSE n - 1

\* Open handles after the with block is left, whatever leaves it.
HandlesAfterExit(n, leaving) == n - 1

\* Variant: row errors are reported as a hard failure.
ExitCode_ErrorsAsFailure(res) == IF res.errors # <<>> THEN 2 ELSE 0

\* main's exit code for a returned ValidationResult.
ExitCode(res) == IF res.errors # <<>> THEN 1 ELSE 0

(* --------------------------------------------------------------- inputs *)
CellValues == {<<"5">>, <<" ", "-", "8", " ">>, <<>>, <<"xE9">>, <<"x81">>}
Headers == {<<>>, <<id, edad>>, <<edad, id>>, <<BOM \o id, edad>>}
DataLines == {<<>>} \cup {[k \in 1..n |-> v] : n \in 1..MaxFields, v \in CellValues}
SeqsUpTo(S, n) == UNION {[1..k -> S] : k \in 0..n}
FileLines(rowBound) ==
    {<<>>} \cup {<<h>> \o d : h \in Headers, d \in SeqsUpTo(DataLines, rowBound)}
Calls == {[expected |-> {id, edad}, age |-> edad],
          [expected |-> {edad}, age |-> edad],
          [expected |-> {id, edad}, age |-> id]}
EncodingLists == SeqsUpTo({"utf-8", "utf-8-sig", "cp1252"}, MaxEncodings)
DirectRows ==
    SeqsUpTo({DictRow(<<id, edad>>, <<<<"1">>, v>>) : v \in {<<"5">>, <<" ", "-", "8">>, <<"a">>}},
             MaxRows)

(* ---------------------------------------------------------------- state *)
VARIABLES entry, file, expected_columns, age_column, encodings,
          pc, loop_it, enc, handles, line, fieldnames, records, leaving,
          last_error, rows, enc_used, errors, result, exc, exit_code,
          trace, attempted, opens

vars == <<entry, file, expected_columns, age_column, encodings,
          pc, loop_it, enc, handles, line, fieldnames, records, leaving,
          last_error, rows, enc_used, errors, result, exc, exit_code,
          trace, attempted, opens>>

inputs == <<entry, file, expected_columns, age_column, encodings>>
reader == <<loop_it, enc, handles, line, fieldnames, records, leaving, last_error,
            attempted, opens>>

InitLocals ==
    /\ loop_it = <<>> /\ enc = "" /\ handles = 0 /\ line = 0
    /\ fieldnames = <<>> /\ records = <<>> /\ leaving = "" /\ last_error = ""
    /\ enc_used = "" /\ errors = <<>> /\ result = NoResult
    /\ exc = NoError /\ exit_code = -1
    /\ trace = <<>> /\ attempted = <<>> /\ opens = 0

InitMain ==
    /\ entry = "main" /\ pc = "main"
    /\ file \in {[kind |-> "missing", lines |-> <<>>], [kind |-> "dir", lines |-> <<>>]}
                \cup {[kind |-> "file", lines |-> l] : l \in FileLines(MaxRows)}
    /\ \E c \in Calls : expected_columns = c.expected /\ age_column = c.age
    /\ encodings = [oneShot |-> FALSE, items |-> DEFAULT_ENCODINGS]
    /\ rows = <<>>

InitReader ==
    /\ entry = "read_csv_rows" /\ pc = "read_csv_rows"
    /\ file \in {[kind |-> "file", lines |-> l] : l \in FileLines(1)}
    /\ expected_columns = {} /\ age_column = edad
    /\ encodings \in {[oneShot |-> o, items |-> e] : o \in BOOLEAN, e \in EncodingLists}
    /\ rows = <<>>

InitSummary ==
    /\ entry = "compute_summary" /\ pc = "compute_summary"
    /\ file = [kind |-> "missing", lines |-> <<>>]
    /\ expected_columns = {} /\ age_column = edad
    /\ encodings = [oneShot |-> FALSE, items |-> DEFAULT_ENCODINGS]
    /\ rows \in DirectRows

Init == InitLocals /\ (InitMain \/ InitReader \/ InitSummary)

Raise(e) == exc' = e /\ pc' = "raised"

(* ------------------------------------------------------------ cli.main *)
MainCall ==
    /\ pc = "main"
    /\ pc' = "validate_file_exists"
    /\ UNCHANGED <<inputs, reader, rows, enc_used, errors, result, exc, exit_code, trace>>

MainReturn ==
    /\ pc = "returned" /\ entry = "main"
    /\ exit_code' = ExitCode(result)
    /\ pc' = "exit"
    /\ UNCHANGED <<inputs, reader, rows, enc_used, errors, result, exc, trace>>

MainExcept ==
    /\ pc = "raised" /\ entry = "main"
    /\ exit_code' = 2
    /\ pc' = "exit"
    /\ UNCHANGED <<inputs, reader, rows, enc_used, errors, result, exc, trace>>

(* -------------------------------------------------------- validate_csv *)
\* Variant: the existence check is left out.
ValidateFileExists_NoCheck ==
    /\ pc = "validate_file_exists"
    /\ trace' = Append(trace, "exists")
    /\ pc' = "read_csv_rows"
    /\ UNCHANGED <<inputs, reader, rows, enc_used, errors, result, exc, exit_code>>

ValidateFileExists ==
    /\ pc = "validate_file_exists"
    /\ trace' = Append(trace, "exists")
    /\ IF file.kind = "missing"
       THEN Raise(OtherError("FileNotFoundError"))
       ELSE pc' = "read_csv_rows" /\ UNCHANGED exc
    /\ UNCHANGED <<inputs, reader, rows, enc_used, errors, result, exit_code>>

ReadCsvRows ==
    /\ pc = "read_csv_rows"
    /\ trace' = Append(trace, "read")
    /\ loop_it' = encodings.items
    /\ last_error' = ""
    /\ pc' = "for_enc"
    /\ UNCHANGED <<inputs, enc, handles, line, fieldnames, records, leaving, attempted,
                   opens, rows, enc_used, errors, result, exc, exit_code>>

\* Variant: the candidates are tried from the last to the first.
ForEnc_LastFirst ==
    /\ pc = "for_enc"
    /\ IF loop_it = <<>>
       THEN /\ Raise(ValueError("Could not decode file using encodings",
                                TupleOf(encodings, loop_it)))
            /\ UNCHANGED <<enc, loop_it, attempted>>
       ELSE /\ enc' = loop_it[Len(loop_it)]
            /\ loop_it' = SubSeq(loop_it, 1, Len(loop_it) - 1)
            /\ attempted' = Append(attempted, loop_it[Len(loop_it)])
            /\ pc' = "open"
            /\ UNCHANGED exc
    /\ UNCHANGED <<inputs, handles, line, fieldnames, records, leaving, last_error,
                   opens, rows, enc_used, errors, result, exit_code, trace>>

ForEnc ==
    /\ pc = "for_enc"
    /\ IF loop_it = <<>>
       THEN /\ Raise(ValueError("Could not decode file using encodings",
                                TupleOf(encodings, loop_it)))
            /\ UNCHANGED <<enc, loop_it, attempted>>
       ELSE /\ enc' = Head(loop_it)
            /\ loop_it' = Tail(loop_it)
            /\ attempted' = Append(attempted, Head(loop_it))
            /\ pc' = "open"
            /\ UNCHANGED exc
    /\ UNCHANGED <<inputs, handles, line, fieldnames, records, leaving, last_error,
                   opens, rows, enc_used, errors, result, exit_code, trace>>

Open ==
    /\ pc = "open"
    /\ opens' = opens + 1
    /\ IF file.kind = "file"
       THEN /\ handles' = handles + 1
            /\ line' = 0 /\ fieldnames' = <<>> /\ records' = <<>>
            /\ pc' = "list_reader"
            /\ UNCHANGED exc
       ELSE /\ Raise(OtherError(IF file.kind = "dir" THEN "IsADirectoryError"
                                ELSE "FileNotFoundError"))
            /\ UNCHANGED <<handles, line, fieldnames, records>>
    /\ UNCHANGED <<inputs, loop_it, enc, leaving, last_error, attempted,
                   rows, enc_used, errors, result, exit_code, trace>>

ReadLine ==
    /\ pc = "list_reader"
    /\ line < Len(file.lines)
    /\ LET r == ReadStep(enc, file.lines, line + 1, fieldnames, records)
       IN IF r.ok
          THEN /\ line' = line + 1
               /\ fieldnames' = r.names
               /\ records' = r.recs
               /\ UNCHANGED <<pc, leaving>>
          ELSE /\ leaving' = "UnicodeDecodeError"
               /\ pc' = "with_exit"
               /\ UNCHANGED <<line, fieldnames, records>>
    /\ UNCHANGED <<inputs, loop_it, enc, handles, last_error, attempted, opens,
                   rows, enc_used, errors, result, exc, exit_code, trace>>

ReadEnd ==
    /\ pc = "list_reader"
    /\ line = Len(file.lines)
    /\ leaving' = "return"
    /\ pc' = "with_exit"
    /\ UNCHANGED <<inputs, loop_it, enc, handles, line, fieldnames, records, last_error,
                   attempted, opens, rows, enc_used, errors, result, exc, exit_code, trace>>

\* The read fails for a reason other than decoding (an I/O error).
ReadFault ==
    /\ pc = "list_reader"
    /\ leaving' = "OSError"
    /\ pc' = "with_exit"
    /\ UNCHANGED <<inputs, loop_it, enc, handles, line, fieldnames, records, last_error,
                   attempted, opens, rows, enc_used, errors, result, exc, exit_code, trace>>

WithExit ==
    /\ pc = "with_exit"
    /\ handles' = HandlesAfterExit(handles, leaving)
    /\ CASE leaving = "return" ->
              /\ rows' = records
              /\ enc_used' = enc
              /\ pc' = IF entry = "main" THEN "validate_columns" ELSE "returned"
              /\ UNCHANGED <<last_error, exc>>
         [] leaving = "UnicodeDecodeError" ->
              /\ last_error' = enc
              /\ pc' = "for_enc"
              /\ UNCHANGED <<rows, enc_used, exc>>
         [] OTHER ->
              /\ Raise(OtherError(leaving))
              /\ UNCHANGED <<rows, enc_used, last_error>>
    /\ UNCHANGED <<inputs, loop_it, enc, line, fieldnames, records, leaving, attempted,
                   opens, errors, result, exit_code, trace>>

ValidateColumns ==
    /\ pc = "validate_columns"
    /\ trace' = Append(trace, "columns")
    /\ LET e == validate_columns(rows, expected_columns)
       IN IF e # NoError THEN Raise(e)
          ELSE pc' = "validate_rows" /\ UNCHANGED exc
    /\ UNCHANGED <<inputs, reader, rows, enc_used, errors, result, exit_code>>

ValidateRows ==
    /\ pc = "validate_rows"
    /\ trace' = Append(trace, "rows")
    /\ errors' = validate_rows(rows, age_column)
    /\ pc' = "if_errors"
    /\ UNCHANGED <<inputs, reader, rows, enc_used, result, exc, exit_code>>

ReturnErrors ==
    /\ pc = "if_errors"
    /\ errors # <<>>
    /\ result' = ErrorResult(rows, errors, enc_used)
    /\ pc' = "returned"
    /\ UNCHANGED <<inputs, reader, rows, enc_used, errors, exc, exit_code, trace>>

ComputeSummary ==
    /\ \/ pc = "if_errors" /\ errors = <<>>
       \/ pc = "compute_summary"
    /\ trace' = Append(trace, "summary")
    /\ LET s == compute_summary(rows, age_column)
       IN IF s.error # NoError
          THEN Raise(s.error) /\ UNCHANGED result
          ELSE /\ result' = SummaryResult(s.total, s.avg, enc_used)
               /\ pc' = "returned"
               /\ UNCHANGED exc
    /\ UNCHANGED <<inputs, reader, rows, enc_used, errors, exit_code>>

Next ==
    \/ MainCall \/ MainReturn \/ MainExcept
    \/ ValidateFileExists \/ ReadCsvRows
    \/ ForEnc \/ Open \/ ReadLine \/ ReadEnd \/ ReadFault \/ WithExit
    \/ ValidateColumns \/ ValidateRows \/ ReturnErrors \/ ComputeSummary

Spec == Init /\ [][Next]_vars

(* ------------------------------------------------- the file, as written *)
\* What the pipeline is measured against: the file's own header and data
\* lines, decoded under the encoding that was adopted.
IsPrefix(a, b) == Len(a) <= Len(b) /\ a = SubSeq(b, 1, Len(a))
NonBlank(cells) == cells # <<>>
HeaderCells ==
    IF file.lines = <<>> THEN <<>> ELSE DecodeLine(enc_used, file.lines[1], TRUE).cells
DataCells ==
    SelectSeq([n \in 1..(Len(file.lines) - 1) |->
                  DecodeLine(enc_used, file.lines[n + 1], FALSE).cells], NonBlank)
AgeCell(i) ==
    LET at == {k \in 1..Len(HeaderCells) : HeaderCells[k] = age_column /\ k <= Len(DataCells[i])}
    IN IF at = {} THEN <<>>
       ELSE DataCells[i][CHOOSE k \in at : \A j \in at : j <= k]
FullRead == [i \in 1..Len(DataCells) |-> DictRow(HeaderCells, DataCells[i])]
FirstDecodable ==
    CHOOSE k \in 1..3 : /\ Decodable(DEFAULT_ENCODINGS[k], file.lines)
                        /\ \A j \in 1..(k - 1) : ~Decodable(DEFAULT_ENCODINGS[j], file.lines)
RECURSIVE SumOfAgeCells(_)
SumOfAgeCells(n) == IF n = 0 THEN 0 ELSE ParseInt(AgeCell(n)).val + SumOfAgeCells(n - 1)

InCsv == entry = "main"
ResultReturned == InCsv /\ pc \in {"returned", "exit"} /\ exc = NoError
ReadReturned == enc_used # ""

(* --------------------------------------------------------------- claims *)

\* C1: every ValidationResult returned by validate_csv has avg_age set if
\* and only if its errors list is empty.
C1_AvgIffNoErrors ==
    ResultReturned => ((result.avg_age # <<>>) <=> (result.errors = <<>>))

C1_Witness ==
    /\ ResultReturned
    /\ result.avg_age # <<>>
    /\ result.total_rows = 2

\* C2: validate_rows classifies each row first-match-wins as overflow, then
\* underflow, then invalid age: a row longer than the header gets only "Too
\* many columns", a shorter one only "Missing columns" whatever its age, an
\* exact one is checked for an integer age; at most one message per row, in
\* row order, carrying the 1-based row index.
C2_RowClassification ==
    (InCsv /\ Len(trace) >= 4) =>
        /\ Len(rows) = Len(DataCells)
        /\ \A i \in 1..Len(DataCells) :
              LET msgs == {k \in DOMAIN errors : errors[k].row = i}
                  lf == Len(HeaderCells)
                  lr == Len(DataCells[i])
              IN /\ Cardinality(msgs) <= 1
                 /\ lr > lf =>
                       \E k \in msgs :
                          /\ errors[k].kind = "Too many columns"
                          /\ errors[k].detail = SubSeq(DataCells[i], lf + 1, lr)
                 /\ lr < lf => \E k \in msgs : errors[k].kind = "Missing columns"
                 /\ lr = lf =>
                       /\ (msgs = {}) <=> ParseInt(AgeCell(i)).ok
                       /\ \A k \in msgs : errors[k].kind = "invalid"
        /\ \A k \in DOMAIN errors : errors[k].row \in 1..Len(DataCells)
        /\ \A j, k \in DOMAIN errors : j < k => errors[j].row < errors[k].row

C2_Witness ==
    /\ InCsv /\ Len(trace) >= 4
    /\ Len(errors) = 2
    /\ errors[1].kind = "Missing columns"
    /\ ParseInt(DataCells[1][1]).ok /\ HeaderCells[1] = age_column
    /\ errors[2].kind = "Too many columns"

\* C3: validate_csv runs Existence Check, Decoding Reader, Schema Checker,
\* Row Validator and then the Aggregator only after zero row errors, in that
\* order; a stage that raises ends the pipeline with no later stage and no
\* ValidationResult; for a missing file FileNotFoundError is raised before
\* the file is ever opened.
StageOrder == <<"exists", "read", "columns", "rows", "summary">>
C3_StagesInOrder ==
    InCsv =>
        /\ IsPrefix(trace, StageOrder)
        /\ Len(trace) = 5 => errors = <<>>
        /\ exc # NoError => result = NoResult
        /\ file.kind = "missing" =>
              /\ opens = 0 /\ attempted = <<>> /\ Len(trace) <= 1
              /\ Len(trace) = 1 => exc = OtherError("FileNotFoundError")
C3_NothingAfterRaise ==
    (InCsv /\ exc # NoError) => (trace' = trace /\ result' = result /\ exc' = exc)
C3_StageOrder == []C3_StagesInOrder /\ [][C3_NothingAfterRaise]_vars

C3_Witness ==
    /\ InCsv /\ file.kind = "missing"
    /\ pc = "raised" /\ exc = OtherError("FileNotFoundError")

\* C4: validate_columns fails with "CSV has no rows" whenever zero records
\* were parsed, before any column comparison; with at least one record it
\* fails with "Missing columns" exactly when a required column is absent
\* from the header, naming the sorted list of exactly the absent required
\* columns; otherwise it passes and leaves the records as they were read.
ColumnsRaised == Len(trace) = 3 /\ pc \in {"raised", "exit"}
C4_SchemaCheck ==
    (InCsv /\ Len(trace) >= 3) =>
        LET header == {HeaderCells[k] : k \in 1..Len(HeaderCells)}
            absent == expected_columns \ header
        IN /\ rows = records
           /\ Len(DataCells) = 0 =>
                 ColumnsRaised /\ exc = ValueError("CSV has no rows", <<>>)
           /\ Len(DataCells) > 0 =>
                 /\ ColumnsRaised <=> absent # {}
                 /\ ColumnsRaised =>
                       /\ exc.type = "ValueError" /\ exc.what = "Missing columns"
                       /\ Len(exc.args) = Cardinality(absent)
                       /\ {exc.args[k] : k \in 1..Len(exc.args)} = absent
                       /\ \A j, k \in 1..Len(exc.args) :
                             j < k => StrLess(exc.args[j], exc.args[k])

C4_Witness ==
    /\ InCsv /\ ColumnsRaised
    /\ Len(DataCells) > 0
    /\ exc = ValueError("Missing columns", <<edad, id>>)

\* C5: read_csv_rows adopts the first candidate, in candidate order, under
\* which the whole file decodes: every candidate before the returned one
\* failed, the returned records are those of one complete read under the
\* returned encoding, none comes from a failed attempt; a file decodable
\* only under Windows-1252 is reported with the third default candidate.
C5_FirstDecodingAdopted ==
    ReadReturned =>
        /\ attempted # <<>> /\ IsPrefix(attempted, encodings.items)
        /\ enc_used = attempted[Len(attempted)]
        /\ \A j \in 1..(Len(attempted) - 1) : ~Decodable(attempted[j], file.lines)
        /\ Decodable(enc_used, file.lines)
        /\ rows = FullRead
        /\ (/\ encodings.items = DEFAULT_ENCODINGS
            /\ ~Decodable("utf-8", file.lines)
            /\ ~Decodable("utf-8-sig", file.lines)) => enc_used = DEFAULT_ENCODINGS[3]

C5_Witness ==
    /\ InCsv /\ pc = "validate_columns"
    /\ enc_used = DEFAULT_ENCODINGS[3]
    /\ Len(rows) = 2
    /\ DecodeLine("utf-8", file.lines[2], FALSE).ok

\* C6 as stated: with the default candidate order, a file decodable under
\* both the second and the third candidate is always reported with the
\* second-listed encoding.
C6_SecondAlwaysSelected ==
    (/\ ReadReturned /\ encodings.items = DEFAULT_ENCODINGS
     /\ Decodable(DEFAULT_ENCODINGS[2], file.lines)
     /\ Decodable(DEFAULT_ENCODINGS[3], file.lines)) => enc_used = DEFAULT_ENCODINGS[2]

\* C6 amended: with the default candidate order, a file decodable under both
\* the second and the third candidate is never reported with the third: it
\* is reported with the earliest-listed candidate that decodes it.
C6_EarliestSelected ==
    (/\ ReadReturned /\ encodings.items = DEFAULT_ENCODINGS
     /\ Decodable(DEFAULT_ENCODINGS[2], file.lines)
     /\ Decodable(DEFAULT_ENCODINGS[3], file.lines)) =>
        /\ enc_used = DEFAULT_ENCODINGS[FirstDecodable]
        /\ enc_used # DEFAULT_ENCODINGS[3]

C6_Witness ==
    /\ ReadReturned /\ encodings.items = DEFAULT_ENCODINGS
    /\ file.lines # <<>> /\ file.lines[1] # <<>>
    /\ Len(file.lines[1][1]) > 3 /\ SubSeq(file.lines[1][1], 1, 3) = BOM
    /\ Decodable(DEFAULT_ENCODINGS[2], file.lines)
    /\ Decodable(DEFAULT_ENCODINGS[3], file.lines)
    /\ enc_used = DEFAULT_ENCODINGS[1]

\* C7: when no candidate decodes the file, the error read_csv_rows raises
\* names all the encodings that were attempted, for any iterable of
\* candidates.
C7_ErrorNamesAttempted ==
    (exc.what = "Could not decode file using encodings") => exc.args = attempted

\* C8: main returns 0 exactly when validate_csv returned a result without
\* row errors, 1 exactly when it returned a result with row errors, 2
\* exactly when validate_csv raised; a raised error is always caught.
C8_ExitCodes ==
    InCsv =>
        /\ pc = "exit" =>
              /\ exit_code \in {0, 1, 2}
              /\ exit_code = 0 <=> (exc = NoError /\ errors = <<>> /\ result.errors = <<>>)
              /\ exit_code = 1 <=> (exc = NoError /\ errors # <<>> /\ result.errors = errors)
              /\ exit_code = 2 <=> exc # NoError
        /\ pc = "raised" => ENABLED MainExcept
        /\ pc # "exit" => exit_code = -1

C8_Witness ==
    /\ InCsv /\ pc = "exit" /\ exit_code = 1
    /\ Len(result.errors) = 2

\* C9: within validate_csv compute_summary runs only on a non-empty row set
\* without row errors, so it neither divides by zero nor fails to parse an
\* age; it returns the number of rows and the sum of the ages divided by
\* it.  Called directly with zero rows it raises instead of returning.
C9_Aggregator ==
    /\ (InCsv /\ Len(trace) = 5) =>
          /\ rows # <<>> /\ errors = <<>>
          /\ exc = NoError
          /\ result.total_rows = Len(DataCells)
          /\ Len(result.avg_age) = 1
          /\ result.avg_age[1].den > 0
          /\ result.avg_age[1].num * Len(DataCells)
                = result.avg_age[1].den * SumOfAgeCells(Len(DataCells))
          /\ Gcd(Abs(result.avg_age[1].num), result.avg_age[1].den) = 1
    /\ (entry = "compute_summary" /\ rows = <<>> /\ pc # "compute_summary") =>
          /\ pc = "raised" /\ exc = OtherError("ZeroDivisionError")
          /\ result = NoResult

C9_Witness ==
    /\ InCsv /\ Len(trace) = 5
    /\ result.total_rows = 2
    /\ result.avg_age = <<[num |-> -3, den |-> 2]>>

\* C10: at most one file handle is open at any time, it is open only while
\* an attempt reads or leaves its with block, and none is open before the
\* next encoding is attempted or after read_csv_rows returns or raises.
C10_HandleScoped ==
    /\ handles \in {0, 1}
    /\ handles = 1 <=> pc \in {"list_reader", "with_exit"}

C10_Witness ==
    /\ opens = 2 /\ handles = 0
    /\ pc = "raised" /\ exc = OtherError("OSError")

====
